---- MODULE Spec2Model ----
(***************************************************************************)
(* The relay handler of src/app.py (proxy_api_request, route /api/proxy):  *)
(* an inbound request is validated, turned into one outbound POST, and the *)
(* outcome of that POST (a response or an exception) is turned into the    *)
(* JSON envelope returned to the caller.                                   *)
(*                                                                         *)
(* Each invocation of the handler is a small process: idle -> calling ->   *)
(* done, or idle -> done when the handler returns before requests.post.    *)
(* The handler's locals are per-invocation; the module has no globals the  *)
(* handler writes.                                                         *)
(***************************************************************************)
EXTENDS Integers, Sequences, FiniteSets, TLC

\* ------------------------------------------------------------------ bounds
NumInvocations == 2   \* handler invocations in flight (threaded=True)
MaxBodyLen     == 3   \* longest remote response body, in characters
MaxTick        == 2   \* distinct readings of datetime.now()

Invocations == 1..NumInvocations
Ticks       == 1..MaxTick

\* ------------------------------------------------------- program constants
TimeoutSeconds == 30

DefaultContentType    == "application/json"
DefaultUserAgent      == "okhttp/4.11.0"
DefaultAcceptEncoding == "gzip,deflate,br"
DefaultApiKey         == ""

\* A JSON object is a set of <<key, value>> pairs; {} is the empty object.
EmptyObject == {}

\* ---------------------------------------------------------------- inputs
Absent == "<absent>"

ConfigKeys ==
  {"url", "contentType", "userAgent", "acceptEncoding", "apiKey", "authToken"}

\* The values a caller may put under each key of `config` ("" is a present
\* but empty string).
SuppliedValues(k) ==
  CASE k = "url"            -> {"", "https://target.example/api"}
    [] k = "contentType"    -> {"", "text/xml"}
    [] k = "userAgent"      -> {"", "curl/8"}
    [] k = "acceptEncoding" -> {"", "identity"}
    [] k = "apiKey"         -> {"", "SIRiZ6in1plZgZyhN9ky7D4N"}
    [] k = "authToken"      -> {"", "xyz"}

\* config as a dict: a function whose domain is the keys that are present.
DictOf(choice) ==
  [k \in {kk \in ConfigKeys : choice[kk] # Absent} |-> choice[k]]

AllConfigs ==
  {DictOf(c) : c \in [url            : SuppliedValues("url") \cup {Absent},
                      contentType    : SuppliedValues("contentType") \cup {Absent},
                      userAgent      : SuppliedValues("userAgent") \cup {Absent},
                      acceptEncoding : SuppliedValues("acceptEncoding") \cup {Absent},
                      apiKey         : SuppliedValues("apiKey") \cup {Absent},
                      authToken      : SuppliedValues("authToken") \cup {Absent}]}

NoDict == [k \in {} |-> ""]

\* The value stored under data['config'], when the key is present: a dict,
\* or something that is no dict (JSON null).
ConfigValue(isDict, fields) == [isDict |-> isDict, fields |-> fields]

BodyValues == {EmptyObject, {<<"feature", "RF">>}}

\* What request.get_json() yields when it yields a value.  kind is the JSON
\* type: null, the empty object, a non-empty list, or a non-empty object with
\* optional members `config` and `body` (each a sequence of length <= 1).
JsonData(kind, config, body) == [kind |-> kind, config |-> config, body |-> body]

NullData  == JsonData("null", <<>>, <<>>)
EmptyData == JsonData("emptyobj", <<>>, <<>>)
ListData  == JsonData("list", <<>>, <<>>)

ObjectData(configs) ==
  {JsonData("obj", c, b) :
     c \in {<<>>, <<ConfigValue(FALSE, NoDict)>>}
             \cup {<<ConfigValue(TRUE, f)>> : f \in configs},
     b \in {<<>>} \cup {<<v>> : v \in BodyValues}}
  \ {JsonData("obj", <<>>, <<>>)}

\* An inbound payload on the wire: its mimetype is JSON or not, and its bytes
\* decode as JSON or not.
Payload(wire, data) == [wire |-> wire, data |-> data]

Payloads(configs) ==
  {Payload("notjson", NullData), Payload("malformed", NullData)}
  \cup {Payload("json", d) :
          d \in {NullData, EmptyData, ListData} \cup ObjectData(configs)}

Request(method, payload) == [method |-> method, payload |-> payload]

Requests(configs) ==
  {Request("OPTIONS", Payload("notjson", NullData))}
  \cup {Request("POST", p) : p \in Payloads(configs)}

AllRequests == Requests(AllConfigs)

SmallConfigs ==
  {DictOf([k \in ConfigKeys |-> Absent]),
   DictOf([k \in ConfigKeys |-> IF k = "url" THEN "https://target.example/api"
                                ELSE Absent]),
   DictOf([k \in ConfigKeys |->
             CASE k = "url" -> "https://target.example/api"
               [] k = "authToken" -> "xyz"
               [] OTHER -> ""])}

SmallRequests ==
  {Request("POST", Payload("json", JsonData("obj", <<ConfigValue(TRUE, f)>>, <<>>))) :
     f \in SmallConfigs}

\* ------------------------------------------------- the remote side's answers
\* A response body is a short text over this alphabet; some texts are JSON
\* documents (numbers and arrays), most are not.
BodyChars == {"1", "[", "]"}

BodyTexts == UNION {[1..n -> BodyChars] : n \in 0..MaxBodyLen}

StatusCodes == {200, 404, 500}

ResponseHeaderMaps ==
  {[h \in {"Content-Type"} |-> "text/plain"],
   [h \in {"Content-Type", "Server"} |->
      IF h = "Server" THEN "nginx" ELSE "application/json"]}

Response(status, text, headers) ==
  [status_code |-> status, text |-> text, headers |-> headers]

AllResponses ==
  {Response(s, t, h) : s \in StatusCodes, t \in BodyTexts, h \in ResponseHeaderMaps}

SmallResponses ==
  {Response(s, t, [h \in {"Content-Type"} |-> "text/plain"]) :
     s \in {200, 500}, t \in {<<"[", "1", "]">>, <<"]">>}}

\* ------------------------------------------------------------ JSON values
\* A JSON value as jsonify emits it: a number, an array, or a string.
JsonNumber(n)     == [t |-> "num", n |-> n, items |-> <<>>]
JsonArray(items)  == [t |-> "arr", n |-> 0, items |-> items]
JsonString(chars) == [t |-> "str", n |-> 0, items |-> chars]

\* Length of the run of digits at the head of text.
RECURSIVE DigitRun(_)
DigitRun(text) ==
  IF text # <<>> /\ Head(text) = "1" THEN 1 + DigitRun(Tail(text)) ELSE 0

RECURSIVE DecimalValue(_, _)
DecimalValue(text, n) ==
  IF n = 0 THEN 0 ELSE 10 * DecimalValue(text, n - 1) + 1

Drop(text, n) == SubSeq(text, n + 1, Len(text))

\* The decoder behind response.json(): parses one value at the head of text
\* and returns it with the unread rest, or fails.
\*   value ::= digit+ | "[" "]" | "[" value "]"
RECURSIVE ParseValue(_)
ParseValue(text) ==
  IF text = <<>> THEN [ok |-> FALSE, value |-> JsonNumber(0), rest |-> text]
  ELSE IF Head(text) = "1" THEN
    LET n == DigitRun(text)
    IN  [ok |-> TRUE, value |-> JsonNumber(DecimalValue(text, n)), rest |-> Drop(text, n)]
  ELSE IF Head(text) = "[" THEN
    IF Len(text) >= 2 /\ text[2] = "]" THEN
      [ok |-> TRUE, value |-> JsonArray(<<>>), rest |-> Drop(text, 2)]
    ELSE
      LET inner == ParseValue(Tail(text))
      IN  IF inner.ok /\ inner.rest # <<>> /\ Head(inner.rest) = "]" THEN
            [ok |-> TRUE, value |-> JsonArray(<<inner.value>>), rest |-> Tail(inner.rest)]
          ELSE [ok |-> FALSE, value |-> JsonNumber(0), rest |-> text]
  ELSE [ok |-> FALSE, value |-> JsonNumber(0), rest |-> text]

\* response.json(): the whole text must be one JSON value, else the decoder
\* raises JSONDecodeError.
ResponseJson(response) ==
  LET p == ParseValue(response.text)
  IN  [ok |-> p.ok /\ p.rest = <<>>, value |-> p.value]

\* Lines 109-112: the parsed body, or the raw text when it is no JSON.
ResponseData(response) ==
  LET parsed == ResponseJson(response)
  IN  IF parsed.ok THEN parsed.value ELSE JsonString(response.text)

\* -------------------------------------------------------------- exceptions
\* The direct base classes of the exception classes the handler meets
\* (requests.exceptions, werkzeug.exceptions and the builtins).
Bases(cls) ==
  CASE cls = "ConnectTimeout"       -> {"ConnectionError", "Timeout"}
    [] cls = "ReadTimeout"          -> {"Timeout"}
    [] cls = "SSLError"             -> {"ConnectionError"}
    [] cls = "ProxyError"           -> {"ConnectionError"}
    [] cls = "Timeout"              -> {"RequestException"}
    [] cls = "ConnectionError"      -> {"RequestException"}
    [] cls = "HTTPError"            -> {"RequestException"}
    [] cls = "TooManyRedirects"     -> {"RequestException"}
    [] cls = "RequestException"     -> {"Exception"}
    [] cls = "BadRequest"           -> {"HTTPException"}
    [] cls = "UnsupportedMediaType" -> {"HTTPException"}
    [] cls = "HTTPException"        -> {"Exception"}
    [] cls = "AttributeError"       -> {"Exception"}
    [] OTHER                        -> {}

\* isinstance(e, handler): handler is cls or one of its ancestors.
RECURSIVE IsInstance(_, _)
IsInstance(cls, handler) ==
  cls = handler \/ \E b \in Bases(cls) : IsInstance(b, handler)

Exc(cls, message) == [cls |-> cls, message |-> message]

\* What requests.post can raise instead of returning a response.  SSLError
\* needs certificate verification to be on.
PostFaults(call) ==
  {Exc("ConnectTimeout", "connect timed out"),
   Exc("ReadTimeout", "read timed out"),
   Exc("ConnectionError", "connection refused"),
   Exc("ProxyError", "cannot connect to proxy"),
   Exc("TooManyRedirects", "exceeded 30 redirects")}
  \cup (IF call.verify THEN {Exc("SSLError", "certificate verify failed")} ELSE {})

\* Variant: the ConnectionError clause written above the Timeout clause.
ExceptClausesConnectionFirst ==
  <<"ConnectionError", "Timeout", "SSLError", "HTTPError", "Exception">>

\* Variant: the handler without its final catch-all clause.
ExceptClausesNoCatchAll ==
  <<"Timeout", "ConnectionError", "SSLError", "HTTPError">>

\* The except clauses of proxy_api_request, in source order.
ExceptClauses ==
  <<"Timeout", "ConnectionError", "SSLError", "HTTPError", "Exception">>

\* Python runs the first clause the exception is an instance of; 0: none.
MatchingClause(exc) ==
  LET hits == {k \in 1..Len(ExceptClauses) : IsInstance(exc.cls, ExceptClauses[k])}
  IN  IF hits = {} THEN 0 ELSE CHOOSE k \in hits : \A m \in hits : k <= m

\* What the handler hands back to Flask: a JSON body and an HTTP status.
Reply(body, http) == [body |-> body, http |-> http]

\* The body of the except clause that matched (lines 123-166).
ExceptReply(exc) ==
  LET clause == ExceptClauses[MatchingClause(exc)]
  IN  CASE clause = "Timeout" ->
             Reply([error |-> "Request timeout - the API took too long to respond",
                    success |-> FALSE, error_type |-> "timeout"], 408)
        [] clause = "ConnectionError" ->
             Reply([error |-> "Connection error - unable to reach the target API",
                    success |-> FALSE, error_type |-> "connection"], 503)
        [] clause = "SSLError" ->
             Reply([error |-> "SSL certificate verification failed",
                    success |-> FALSE, error_type |-> "ssl"], 495)
        [] clause = "HTTPError" ->
             Reply([error |-> "HTTP error occurred: " \o exc.message,
                    success |-> FALSE, error_type |-> "http"], 500)
        [] clause = "Exception" ->
             Reply([error |-> "Unexpected error: " \o exc.message,
                    success |-> FALSE, error_type |-> "unexpected"], 500)

\* A log record: logger.info / logger.error with what it formats.
LogInfo(message, what)  == <<"INFO", message, what>>
LogError(message, what) == <<"ERROR", message, what>>

\* What the matching clause logs: its message, and the traceback in the
\* catch-all clause (line 161).
ExceptLog(exc) ==
  LET clause == ExceptClauses[MatchingClause(exc)]
  IN  IF clause = "Exception"
      THEN LogError("Unexpected error: ", <<"traceback", exc.cls, exc.message>>)
      ELSE LogError(ExceptReply(exc).body.error, <<>>)

\* @app.errorhandler(500): what the caller gets when a fault leaves the handler.
InternalErrorReply ==
  Reply([error |-> "Internal server error", success |-> FALSE], 500)

\* --------------------------------------------------- the handler, to the POST
Returned(reply) == [tag |-> "return", reply |-> reply]
Raised(exc)     == [tag |-> "raise", exc |-> exc]
Value(v)        == [tag |-> "value", value |-> v]

\* request.get_json() (line 61).  A body that is no JSON raises BadRequest.  A
\* request whose mimetype is not JSON yields None in older Flask and raises
\* UnsupportedMediaType in newer Flask: `strict` is which of the two runs.
GetJson(payload, strict) ==
  CASE payload.wire = "malformed" ->
         Raised(Exc("BadRequest", "400 Bad Request: Failed to decode JSON object"))
    [] payload.wire = "notjson" ->
         IF strict
         THEN Raised(Exc("UnsupportedMediaType", "415 Unsupported Media Type"))
         ELSE Value(NullData)
    [] OTHER -> Value(payload.data)

\* Python truthiness of the decoded payload (line 62).
Truthy(data) == data.kind \notin {"null", "emptyobj"}

\* Lines 80-87: every header with its resolved value, empty ones included.
ResolvedHeaders(config) ==
  LET get(k, default) == IF k \in DOMAIN config THEN config[k] ELSE default
      token == get("authToken", "")
  IN  [h \in {"Content-Type", "User-Agent", "Accept-Encoding", "x-api-key",
              "Authorization"} |->
         CASE h = "Content-Type"    -> get("contentType", DefaultContentType)
           [] h = "User-Agent"      -> get("userAgent", DefaultUserAgent)
           [] h = "Accept-Encoding" -> get("acceptEncoding", DefaultAcceptEncoding)
           [] h = "x-api-key"       -> get("apiKey", DefaultApiKey)
           [] h = "Authorization"   -> IF token # "" THEN "Bearer " \o token ELSE ""]

\* Variant: the filter of line 90 left out.
KeepEmpty(headers) == headers

\* Line 90: remove empty headers.
RemoveEmpty(headers) ==
  [h \in {k \in DOMAIN headers : headers[k] # ""} |-> headers[h]]

\* Line 93: a header value as the log shows it.
Truncated(v) == IF Len(v) > 20 THEN SubSeq(v, 1, 20) \o "..." ELSE v

\* Lines 92-94: what the handler logs before it posts.
RequestLog(call) ==
  <<LogInfo("Making request to: ", call.url),
    LogInfo("Headers: ", [h \in DOMAIN call.headers |-> Truncated(call.headers[h])]),
    LogInfo("Body: ", call.json)>>

\* Lines 97-103: the arguments of requests.post.
OutboundCall(url, headers, body) ==
  [method |-> "POST", url |-> url, headers |-> headers, json |-> body,
   timeout |-> TimeoutSeconds, verify |-> TRUE]

Posting(call) == [tag |-> "post", call |-> call]

\* Lines 68-103, for a payload that is a non-empty JSON value.
Relay(data) ==
  IF data.kind # "obj" THEN
    Raised(Exc("AttributeError", "'list' object has no attribute 'get'"))
  ELSE IF data.config # <<>> /\ ~data.config[1].isDict THEN
    Raised(Exc("AttributeError", "'NoneType' object has no attribute 'get'"))
  ELSE
    LET config       == IF data.config = <<>> THEN NoDict ELSE data.config[1].fields
        request_body == IF data.body = <<>> THEN EmptyObject ELSE data.body[1]
        url          == IF "url" \in DOMAIN config THEN config["url"] ELSE ""
    IN  IF url = "" THEN
          Returned(Reply([error |-> "No target URL provided", success |-> FALSE], 400))
        ELSE
          Posting(OutboundCall(url, RemoveEmpty(ResolvedHeaders(config)), request_body))

\* Lines 55-103: the handler up to requests.post.  It returns a reply, raises
\* into its except clauses, or posts.
BeforePost(request, strict) ==
  IF request.method = "OPTIONS" THEN Returned(Reply([status |-> "ok"], 200))
  ELSE
    LET got == GetJson(request.payload, strict)
    IN  IF got.tag = "raise" THEN got
        ELSE IF ~Truthy(got.value) THEN
          Returned(Reply([error |-> "No request data provided", success |-> FALSE], 400))
        ELSE Relay(got.value)

\* Variant: `success` reflecting the remote status instead of the relay.
SuccessReplyJudging(response, now) ==
  Reply([success |-> response.status_code < 400,
         status_code |-> response.status_code,
         data |-> ResponseData(response), headers |-> response.headers,
         timestamp |-> now], 200)

\* Lines 105-121: the success envelope.
SuccessReply(response, now) ==
  Reply([success |-> TRUE, status_code |-> response.status_code,
         data |-> ResponseData(response), headers |-> response.headers,
         timestamp |-> now], 200)

\* ------------------------------------------------------------------ state
VARIABLES
  pc,        \* pc[i]: "idle", "calling" (inside requests.post) or "done"
  request,   \* request[i]: the inbound request, <<>> before it arrives
  sent,      \* sent[i]: the outbound calls issued so far, in order
  response,  \* response[i]: the HTTP response requests.post returned, if any
  fault,     \* fault[i]: the exception raised inside the handler, if any
  reply,     \* reply[i]: the replies handed back to the caller, in order
  escaped,   \* escaped[i]: a fault left the handler uncaught
  log        \* log[i]: the records the invocation handed to the logger

vars == <<pc, request, sent, response, fault, reply, escaped, log>>

Init ==
  /\ pc       = [i \in Invocations |-> "idle"]
  /\ request  = [i \in Invocations |-> <<>>]
  /\ sent     = [i \in Invocations |-> <<>>]
  /\ response = [i \in Invocations |-> <<>>]
  /\ fault    = [i \in Invocations |-> <<>>]
  /\ reply    = [i \in Invocations |-> <<>>]
  /\ escaped  = [i \in Invocations |-> FALSE]
  /\ log      = [i \in Invocations |-> <<>>]

\* An exception reaches the except clauses: the matching clause replies; with
\* no matching clause it leaves the handler and Flask's 500 handler replies.
Caught(i, exc) ==
  /\ fault' = [fault EXCEPT ![i] = <<exc>>]
  /\ IF MatchingClause(exc) = 0
     THEN /\ reply'   = [reply EXCEPT ![i] = Append(@, InternalErrorReply)]
          /\ escaped' = [escaped EXCEPT ![i] = TRUE]
          /\ UNCHANGED log
     ELSE /\ reply'   = [reply EXCEPT ![i] = Append(@, ExceptReply(exc))]
          /\ log'     = [log EXCEPT ![i] = Append(@, ExceptLog(exc))]
          /\ UNCHANGED escaped
  /\ pc' = [pc EXCEPT ![i] = "done"]

\* A request arrives and the handler runs up to requests.post.
HandleRequest(i, requests) ==
  /\ pc[i] = "idle"
  /\ \E r \in requests, strict \in BOOLEAN :
       LET step == BeforePost(r, strict)
       IN  /\ request' = [request EXCEPT ![i] = <<r>>]
           /\ CASE step.tag = "return" ->
                     /\ reply' = [reply EXCEPT ![i] = Append(@, step.reply)]
                     /\ pc' = [pc EXCEPT ![i] = "done"]
                     /\ UNCHANGED <<sent, fault, escaped, log>>
                [] step.tag = "raise" ->
                     /\ Caught(i, step.exc)
                     /\ UNCHANGED sent
                [] step.tag = "post" ->
                     /\ log' = [log EXCEPT ![i] = @ \o RequestLog(step.call)]
                     /\ sent' = [sent EXCEPT ![i] = Append(@, step.call)]
                     /\ pc' = [pc EXCEPT ![i] = "calling"]
                     /\ UNCHANGED <<reply, fault, escaped>>
  /\ UNCHANGED response

\* Variant: the response kept in a module-level global that every invocation
\* in flight reads.
PostRespondsShared(i, responses) ==
  /\ pc[i] = "calling"
  /\ \E r \in responses, now \in Ticks :
       /\ response' = [j \in Invocations |-> <<r>>]
       /\ reply' = [reply EXCEPT ![i] = Append(@, SuccessReply(r, now))]
       /\ log' = [log EXCEPT ![i] = Append(@, LogInfo("Response status: ", r.status_code))]
  /\ pc' = [pc EXCEPT ![i] = "done"]
  /\ UNCHANGED <<request, sent, fault, escaped>>

\* requests.post returns a response: lines 105-121.
PostResponds(i, responses) ==
  /\ pc[i] = "calling"
  /\ \E r \in responses, now \in Ticks :
       /\ response' = [response EXCEPT ![i] = <<r>>]
       /\ reply' = [reply EXCEPT ![i] = Append(@, SuccessReply(r, now))]
       /\ log' = [log EXCEPT ![i] = Append(@, LogInfo("Response status: ", r.status_code))]
  /\ pc' = [pc EXCEPT ![i] = "done"]
  /\ UNCHANGED <<request, sent, fault, escaped>>

\* Variant: one more attempt after a failed call.
PostRaisesRetrying(i) ==
  /\ pc[i] = "calling"
  /\ \E exc \in PostFaults(sent[i][Len(sent[i])]) :
       IF Len(sent[i]) < 2
       THEN /\ sent' = [sent EXCEPT ![i] = Append(@, @[Len(@)])]
            /\ UNCHANGED <<pc, fault, reply, escaped, log>>
       ELSE Caught(i, exc) /\ UNCHANGED sent
  /\ UNCHANGED <<request, response>>

\* requests.post raises: lines 123-166.
PostRaises(i) ==
  /\ pc[i] = "calling"
  /\ \E exc \in PostFaults(sent[i][Len(sent[i])]) : Caught(i, exc)
  /\ UNCHANGED <<request, sent, response>>

\* One invocation, every inbound request, a few remote answers.
Next ==
  \/ HandleRequest(1, AllRequests)
  \/ PostResponds(1, SmallResponses)
  \/ PostRaises(1)

Spec == Init /\ [][Next]_vars

\* One invocation, a few inbound requests, every remote answer.
NextRelay ==
  \/ HandleRequest(1, SmallRequests)
  \/ PostResponds(1, AllResponses)
  \/ PostRaises(1)

SpecRelay == Init /\ [][NextRelay]_vars

\* Invocations in flight together, interleaved in any order.
NextConcurrent ==
  \E i \in Invocations :
    \/ HandleRequest(i, SmallRequests)
    \/ PostResponds(i, SmallResponses)
    \/ PostRaises(i)

SpecConcurrent == Init /\ [][NextConcurrent]_vars

\* ---------------------------------------------------------------- claims
Done(i)      == pc[i] = "done"
TheReply(i)  == reply[i][1]
IsFailure(b) == "success" \in DOMAIN b /\ b.success = FALSE
IsSuccess(b) == "success" \in DOMAIN b /\ b.success = TRUE
Posted(i)    == sent[i] # <<>>
HasFault(i)  == fault[i] # <<>>
PostFailed(i) == Posted(i) /\ HasFault(i)

IsPost(i) == request[i] # <<>> /\ request[i][1].method = "POST"
DataOf(i) == request[i][1].payload.data

\* The descriptor carries no usable config.url.
UrlMissing(data) ==
  \/ data.config = <<>>
  \/ ~data.config[1].isDict
  \/ "url" \notin DOMAIN data.config[1].fields
  \/ data.config[1].fields["url"] = ""

ErrorKinds == {"validation", "timeout", "connection", "ssl", "http", "unexpected"}

StatusOfKind(kind) ==
  CASE kind = "validation" -> 400
    [] kind = "timeout"    -> 408
    [] kind = "connection" -> 503
    [] kind = "ssl"        -> 495
    [] kind = "http"       -> 500
    [] kind = "unexpected" -> 500

IsKind(r, kind) ==
  /\ IsFailure(r.body)
  /\ "error_type" \in DOMAIN r.body
  /\ r.body.error_type = kind
  /\ r.http = StatusOfKind(kind)

\* C1: when the outbound call fails TLS certificate verification, the reply is
\* the ssl failure envelope with status 495, and the one call made verified
\* certificates.
C1_TlsFailureIsSsl ==
  \A i \in Invocations :
    (Done(i) /\ PostFailed(i) /\ fault[i][1].cls = "SSLError") =>
      /\ IsKind(TheReply(i), "ssl")
      /\ Len(sent[i]) = 1
      /\ sent[i][1].verify

\* C2: a POST whose payload is a non-empty JSON object without a usable
\* config.url is answered 400 with a validation failure envelope, and nothing
\* is sent.
C2_MissingUrlIsValidation ==
  \A i \in Invocations :
    (Done(i) /\ IsPost(i) /\ request[i][1].payload.wire = "json"
       /\ DataOf(i).kind = "obj" /\ UrlMissing(DataOf(i))) =>
      /\ IsKind(TheReply(i), "validation")
      /\ ~Posted(i)

\* C3: a POST without a parseable payload is answered 400 with a validation
\* failure envelope whose message is not the missing-URL message, and nothing
\* is sent.
C3_NoPayloadIsValidation ==
  \A i \in Invocations :
    (Done(i) /\ IsPost(i) /\ request[i][1].payload.wire \in {"notjson", "malformed"}) =>
      /\ IsKind(TheReply(i), "validation")
      /\ TheReply(i).body.error # "No target URL provided"
      /\ ~Posted(i)

\* The text of a JSON value (the digits of a number, most significant first).
RECURSIVE RenderNumber(_)
RenderNumber(n) ==
  IF n < 10 THEN <<IF n = 1 THEN "1" ELSE "?">>
  ELSE RenderNumber(n \div 10) \o RenderNumber(n % 10)

RECURSIVE Render(_)
Render(v) ==
  CASE v.t = "num" -> RenderNumber(v.n)
    [] v.t = "arr" -> IF v.items = <<>> THEN <<"[", "]">>
                      ELSE <<"[">> \o Render(v.items[1]) \o <<"]">>

\* The number written with k ones.
RECURSIVE Ones(_)
Ones(k) == IF k = 0 THEN 0 ELSE 10 * Ones(k - 1) + 1

\* The JSON values over the body alphabet, nested to `depth`.
RECURSIVE JsonValues(_)
JsonValues(depth) ==
  IF depth = 0
  THEN {JsonNumber(Ones(k)) : k \in 1..MaxBodyLen} \cup {JsonArray(<<>>)}
  ELSE JsonValues(depth - 1) \cup {JsonArray(<<v>>) : v \in JsonValues(depth - 1)}

\* Every text of at most MaxBodyLen characters that is a JSON document is here.
JsonDocuments == {Render(v) : v \in JsonValues(MaxBodyLen)}

\* C4: whenever the outbound POST got a response, whatever its status, the
\* reply is 200 with success = true, the remote status code, and as data the
\* JSON value the body is the text of, or the body text itself when it is the
\* text of no JSON value.
C4_ResponseIsRelayed ==
  \A i \in Invocations :
    response[i] # <<>> =>
      LET r == response[i][1]
          b == TheReply(i).body
      IN  /\ Done(i) /\ Len(reply[i]) = 1
          /\ TheReply(i).http = 200
          /\ IsSuccess(b)
          /\ b.status_code = r.status_code
          /\ IF r.text \in JsonDocuments
             THEN b.data.t # "str" /\ Render(b.data) = r.text
             ELSE b.data = JsonString(r.text)

C4_Witness ==
  \E i \in Invocations :
    /\ Done(i) /\ response[i] # <<>>
    /\ response[i][1].status_code = 404
    /\ response[i][1].text = <<"[", "1", "]">>
    /\ TheReply(i).body.data = JsonArray(<<JsonNumber(1)>>)

\* The value the caller's config resolves a header to.
Supplied(config, key, default) ==
  IF key \in DOMAIN config THEN config[key] ELSE default

Expected(config, header) ==
  CASE header = "Content-Type"    -> Supplied(config, "contentType", "application/json")
    [] header = "User-Agent"      -> Supplied(config, "userAgent", "okhttp/4.11.0")
    [] header = "Accept-Encoding" -> Supplied(config, "acceptEncoding", "gzip,deflate,br")
    [] header = "x-api-key"       -> Supplied(config, "apiKey", "")
    [] header = "Authorization"   ->
         IF Supplied(config, "authToken", "") = "" THEN ""
         ELSE "Bearer " \o config["authToken"]

HeaderNames ==
  {"Content-Type", "User-Agent", "Accept-Encoding", "x-api-key", "Authorization"}

\* C5: the headers of every outbound call are exactly the headers whose
\* resolved value is non-empty, each with its resolved value; none is sent
\* empty, and Authorization is "Bearer <token>" or absent.
C5_HeadersAreResolvedNonEmpty ==
  \A i \in Invocations :
    Posted(i) =>
      LET config  == DataOf(i).config[1].fields
          headers == sent[i][1].headers
      IN  /\ DOMAIN headers \subseteq HeaderNames
          /\ \A h \in HeaderNames :
               /\ h \in DOMAIN headers <=> Expected(config, h) # ""
               /\ h \in DOMAIN headers => headers[h] = Expected(config, h) /\ headers[h] # ""
          /\ ("authToken" \notin DOMAIN config \/ config["authToken"] = "")
               => "Authorization" \notin DOMAIN headers

C5_Witness ==
  \E i \in Invocations :
    /\ Posted(i)
    /\ "authToken" \in DOMAIN DataOf(i).config[1].fields
    /\ DataOf(i).config[1].fields["authToken"] = "xyz"
    /\ "apiKey" \in DOMAIN DataOf(i).config[1].fields
    /\ DataOf(i).config[1].fields["apiKey"] = ""
    /\ "userAgent" \notin DOMAIN DataOf(i).config[1].fields
    /\ sent[i][1].headers["Authorization"] = "Bearer xyz"
    /\ sent[i][1].headers["User-Agent"] = "okhttp/4.11.0"
    /\ "x-api-key" \notin DOMAIN sent[i][1].headers

\* C6: when the outbound call times out, connecting or reading, the reply is
\* the timeout failure envelope with status 408.
C6_TimeoutIs408 ==
  \A i \in Invocations :
    (Done(i) /\ PostFailed(i) /\ fault[i][1].cls \in {"ConnectTimeout", "ReadTimeout"}) =>
      /\ IsKind(TheReply(i), "timeout")
      /\ TheReply(i).http # 503

C6_Witness ==
  \E i \in Invocations :
    /\ Done(i) /\ PostFailed(i)
    /\ fault[i][1].cls = "ConnectTimeout"
    /\ TheReply(i).http = 408

\* C7: every reply of the route has a boolean `success`, and every reply with
\* success = false has an error_type of the taxonomy with that kind's status.
C7_EveryReplyIsAnEnvelope ==
  \A i \in Invocations :
    Done(i) =>
      /\ "success" \in DOMAIN TheReply(i).body
      /\ TheReply(i).body.success \in BOOLEAN
      /\ IsFailure(TheReply(i).body) =>
           \E kind \in ErrorKinds : IsKind(TheReply(i), kind)

\* C8: an invocation issues at most one outbound call, and none once the call
\* it issued is under way or has ended.
C8_AtMostOneCall ==
  [][\A i \in Invocations :
       /\ Len(sent'[i]) <= 1
       /\ pc[i] # "idle" => sent'[i] = sent[i]]_vars

C8_Witness ==
  \E i \in Invocations :
    /\ Done(i) /\ PostFailed(i)
    /\ fault[i][1].cls = "ConnectionError"
    /\ Len(sent[i]) = 1

\* Everything an invocation owns.
Local(i) ==
  <<pc[i], request[i], sent[i], response[i], fault[i], reply[i], escaped[i], log[i]>>

\* C9: a step of one invocation changes nothing another invocation owns; the
\* status_code of an envelope is that of the invocation's own response; and two
\* invocations with the same request and the same response return the same data
\* and status_code.
C9_InvocationsAreIndependent ==
  /\ [][\A i, j \in Invocations :
          (i # j /\ Local(i)' # Local(i)) => Local(j)' = Local(j)]_vars
  /\ [](\A i \in Invocations :
          (Done(i) /\ IsSuccess(TheReply(i).body)) =>
             /\ response[i] # <<>>
             /\ TheReply(i).body.status_code = response[i][1].status_code)
  /\ [](\A i, j \in Invocations :
          (/\ response[i] # <<>> /\ response[j] # <<>>
           /\ Done(i) /\ Done(j)
           /\ request[i] = request[j] /\ response[i] = response[j]) =>
             /\ TheReply(i).body.data = TheReply(j).body.data
             /\ TheReply(i).body.status_code = TheReply(j).body.status_code)

C9_Witness ==
  \E i, j \in Invocations :
    /\ i # j /\ Done(i) /\ Done(j)
    /\ response[i] # <<>> /\ response[i] = response[j]
    /\ request[i] = request[j]
    /\ TheReply(i).body.timestamp # TheReply(j).body.timestamp
    /\ TheReply(i).body.data = TheReply(j).body.data

\* C10: an invocation that has ended has returned exactly one reply, one that
\* has not has returned none, and a call under way can always end; a success
\* envelope is returned only with a response in hand; and a failed outbound
\* call yields a failure envelope without status_code, data or headers, the
\* fault staying inside the handler.
C10_OneReplyAndFailureOnFault ==
  \A i \in Invocations :
    /\ Len(reply[i]) = (IF Done(i) THEN 1 ELSE 0)
    /\ pc[i] = "calling" => ENABLED PostRaises(i)
    /\ (Done(i) /\ IsSuccess(TheReply(i).body)) => (response[i] # <<>> /\ ~HasFault(i))
    /\ (Done(i) /\ PostFailed(i)) =>
         /\ IsFailure(TheReply(i).body)
         /\ DOMAIN TheReply(i).body \cap {"status_code", "data", "headers"} = {}
         /\ "error_type" \in DOMAIN TheReply(i).body
         /\ ~escaped[i]

C10_Witness ==
  \E i \in Invocations :
    /\ Done(i) /\ PostFailed(i)
    /\ fault[i][1].cls = "TooManyRedirects"
    /\ TheReply(i).body.error_type = "unexpected"
    /\ ~escaped[i]

====
